---- MODULE Spec2Model ----
(***************************************************************************)
(* Gradual type checker for tensor shapes over an fx graph                 *)
(* (torch/fx/experimental/graph_gradual_typechecker.py).                   *)
(*                                                                         *)
(* Python values are records [k, v, dims]: k is the kind of the value,     *)
(* v the number of an int, dims the __args__ of a TensorType.              *)
(***************************************************************************)
EXTENDS Integers, Sequences, FiniteSets, TLC

\* ------------------------------------------------------------------------
\* Values
\* ------------------------------------------------------------------------
None == [k |-> "None", v |-> 0, dims |-> <<>>]

Dyn == [k |-> "Dyn", v |-> 0, dims |-> <<>>]

\* the class int, used as the type of a scalar operand
int == [k |-> "int", v |-> 0, dims |-> <<>>]

\* an int used as a dimension
Num(i) == [k |-> "num", v |-> i, dims |-> <<>>]

TensorType(ds) == [k |-> "TensorType", v |-> 0, dims |-> ds]

isTensorType(t) == t.k = "TensorType"

isInt(d) == d.k = "num"

\* a function result: the value returned, or the exception raised
Return(x) == [err |-> "none", val |-> x]

Raise(e) == [err |-> e, val |-> None]

\* the state of the node types after a rule, and the exception it raised
Done(ty) == [ty |-> ty, err |-> "none"]

Fail(ty, e) == [ty |-> ty, err |-> e]

\* ------------------------------------------------------------------------
\* torch.fx.tensor_type
\* ------------------------------------------------------------------------
dim_consistent(d1, d2) == d1 = d2 \/ d1 = Dyn \/ d2 = Dyn

is_consistent(t1, t2) ==
    IF t1 = t2 THEN TRUE
    ELSE IF t1 = Dyn \/ t2 = Dyn THEN TRUE
    ELSE IF isTensorType(t1) /\ isTensorType(t2)
         THEN /\ Len(t1.dims) = Len(t2.dims)
              /\ \A i \in 1..Len(t1.dims) : dim_consistent(t1.dims[i], t2.dims[i])
    ELSE FALSE

dim_more_precise(d1, d2) == d1 = d2 \/ d2 = Dyn

is_more_precise(t1, t2) ==
    IF t1 = t2 THEN TRUE
    ELSE IF t2 = Dyn THEN TRUE
    ELSE IF isTensorType(t1) /\ isTensorType(t2)
         THEN /\ Len(t1.dims) = Len(t2.dims)
              /\ \A i \in 1..Len(t1.dims) : dim_more_precise(t1.dims[i], t2.dims[i])
    ELSE FALSE

\* ------------------------------------------------------------------------
\* Python arithmetic
\* ------------------------------------------------------------------------
Abs(a) == IF a < 0 THEN -a ELSE a

\* a % b of Python for b # 0: the result has the sign of b
PyMod(a, b) ==
    IF b > 0 THEN a % b
    ELSE LET m == (-a) % (-b) IN -m

\* floor(a / b) of Python for b > 0
PyFloorDiv(a, b) == a \div b

RECURSIVE reduce_mul(_)
\* reduce(lambda x, y: x * y, s) on a non-empty sequence of ints
reduce_mul(s) ==
    IF Len(s) = 1 THEN s[1] ELSE s[1] * reduce_mul(Tail(s))

\* ------------------------------------------------------------------------
\* Shape algebra
\* ------------------------------------------------------------------------
apply_matching(t, n) ==
    IF t = Dyn THEN Return(TensorType([i \in 1..n |-> Dyn]))
    ELSE IF isTensorType(t)
         THEN IF Len(t.dims) # n THEN Raise("TypeError: Cannot apply matching")
              ELSE Return(t)
    ELSE Raise("TypeError: Cannot match the type")

\* line 61, faulty variant: an operand changed on either side is rejected
in_place_changed_either(new_t1, new_t2, t1, t2) ==
    new_t1 # t1.dims \/ new_t2 # t2.dims

in_place_changed(new_t1, new_t2, t1, t2) ==
    new_t1 # t1.dims /\ new_t2 # t2.dims

broadcast_types(t1, t2) ==
    IF t1 = Dyn \/ t2 = Dyn THEN Return(<<t1, t2>>)
    ELSE IF isTensorType(t1) /\ isTensorType(t2)
    THEN LET s1 == Len(t1.dims)
             s2 == Len(t2.dims)
             ins1 == IF s2 > s1 THEN <<t2.dims[1]>> \o t1.dims ELSE t1.dims
             ins2 == IF s1 > s2 THEN <<t1.dims[1]>> \o t2.dims ELSE t2.dims
             m == IF Len(ins1) < Len(ins2) THEN Len(ins1) ELSE Len(ins2)
             new_t1 == [i \in 1..Len(ins1) |->
                          IF i <= m /\ ins1[i] = Num(1) THEN ins2[i] ELSE ins1[i]]
             new_t2 == [i \in 1..Len(ins2) |->
                          IF i <= m /\ ins1[i] # Num(1) /\ ins2[i] = Num(1)
                          THEN ins1[i] ELSE ins2[i]]
         IN  IF Abs(s1 - s2) > 1 \/ s1 = 0 \/ s2 = 0
             THEN Raise("TypeError: Cannot broadcast the tensors")
             ELSE IF in_place_changed(new_t1, new_t2, t1, t2)
             THEN Raise("TypeError: In-place operations cannot not change shape")
             ELSE Return(<<TensorType(new_t1), TensorType(new_t2)>>)
    ELSE Raise("TypeError: Cannot broadcast types")

\* (x, x) if isinstance(x, int) else x; an int hyperparameter is <<x>>
pair(x) == IF Len(x) = 1 THEN <<x[1], x[1]>> ELSE x

window_out(d_in, padding, kernel_size, stride, dilation) ==
    PyFloorDiv(d_in + (2 * padding - dilation * (kernel_size - 1) - 1), stride) + 1

calculate_hout(h_in, op_type) ==
    LET padding == pair(op_type.padding)
        kernel_size == pair(op_type.kernel_size)
        stride == pair(op_type.stride)
        dilation == pair(op_type.dilation)
    IN  IF h_in = Dyn THEN Return(Dyn)
        ELSE IF isInt(h_in)
        THEN Return(Num(window_out(h_in.v, padding[1], kernel_size[1], stride[1], dilation[1])))
        ELSE Raise("TypeError: must be a number or Dyn")

\* faulty variant: the width is computed with the height's components
calculate_wout_axis0(w_in, op_type) ==
    LET padding == pair(op_type.padding)
        kernel_size == pair(op_type.kernel_size)
        stride == pair(op_type.stride)
        dilation == pair(op_type.dilation)
    IN  IF w_in = Dyn THEN Return(Dyn)
        ELSE IF isInt(w_in)
        THEN Return(Num(window_out(w_in.v, padding[1], kernel_size[1], stride[1], dilation[1])))
        ELSE Raise("TypeError: must be a number or Dyn")

calculate_wout(w_in, op_type) ==
    LET padding == pair(op_type.padding)
        kernel_size == pair(op_type.kernel_size)
        stride == pair(op_type.stride)
        dilation == pair(op_type.dilation)
    IN  IF w_in = Dyn THEN Return(Dyn)
        ELSE IF isInt(w_in)
        THEN Return(Num(window_out(w_in.v, padding[2], kernel_size[2], stride[2], dilation[2])))
        ELSE Raise("TypeError: must be a number or Dyn")

\* ------------------------------------------------------------------------
\* Inference rules.  ty is the sequence of the nodes' type slots, i the
\* position of the node n; n.args are the positions of the argument nodes
\* and n.lits the literal arguments that follow them.
\* ------------------------------------------------------------------------

\* lines 100-103: the type the add rule gives the node
add_result(new_t1, new_t2) ==
    IF is_more_precise(new_t1, new_t2) THEN new_t2 ELSE new_t1

add_inference_rule(ty, i, n) ==
    LET a0 == n.args[1]
        a1 == n.args[2]
        t1 == ty[a0]
        t2 == ty[a1]
        b == broadcast_types(t1, t2)
        new_t1 == b.val[1]
        new_t2 == b.val[2]
        ty1 == [[ty EXCEPT ![a0] = new_t1] EXCEPT ![a1] = new_t2]
    IN  IF t1 = int /\ isTensorType(t2) THEN Done([ty EXCEPT ![i] = t2])
        ELSE IF t2 = int /\ isTensorType(t1) THEN Done([ty EXCEPT ![i] = t1])
        ELSE IF b.err # "none" THEN Fail(ty, b.err)
        ELSE IF is_consistent(new_t1, new_t2)
        THEN Done([ty1 EXCEPT ![i] = add_result(new_t1, new_t2)])
        ELSE Fail(ty1, "TypeError: Cannot add arguments")

transpose_inference_rule(ty, i, n) ==
    IF n.target = "torch.transpose"
    THEN LET t == ty[n.args[1]]
             dim1 == n.lits[1]
             dim2 == n.lits[2]
             new_type == [j \in 1..Len(t.dims) |->
                            IF j = dim1 + 1 THEN t.dims[dim2 + 1]
                            ELSE IF j = dim2 + 1 THEN t.dims[dim1 + 1]
                            ELSE t.dims[j]]
         IN  IF t = Dyn THEN Done([ty EXCEPT ![i] = Dyn])
             ELSE IF isTensorType(t)
             THEN IF 0 <= dim1 /\ dim1 < Len(t.dims) /\ 0 <= dim2 /\ dim2 < Len(t.dims)
                  THEN Done([ty EXCEPT ![i] = TensorType(new_type)])
                  ELSE Fail(ty, "TypeError: Cannot transpose")
             ELSE Fail(ty, "TypeError: Cannot transpose")
    ELSE Done(ty)

\* Dyn if elem == -1 else elem, for every elem of the target list
reshape_target(t2) == [j \in 1..Len(t2) |-> IF t2[j] = -1 THEN Dyn ELSE Num(t2[j])]

\* x in s
contains(s, x) == \E j \in 1..Len(s) : s[j] = x

\* reduce(lambda x, y: x * y, s) with its exceptions; s is a sequence of ints
reduce_product(s) ==
    IF Len(s) = 0 THEN Raise("TypeError: reduce() of empty sequence")
    ELSE Return(reduce_mul(s))

\* p1 % p2 == 0 or p2 % p1 == 0, with its exceptions
divisible_either(p1, p2) ==
    IF p2 = 0 THEN Raise("ZeroDivisionError")
    ELSE IF PyMod(p1, p2) = 0 THEN Return(TRUE)
    ELSE IF p1 = 0 THEN Raise("ZeroDivisionError")
    ELSE Return(PyMod(p2, p1) = 0)

reshape_inference_rule(ty, i, n) ==
    LET t1 == ty[n.args[1]]
        t2 == n.lits
        t2_type == TensorType(reshape_target(t2))
        ok == Done([ty EXCEPT ![i] = t2_type])
        a == [j \in 1..Len(t1.dims) |-> IF t1.dims[j] # Dyn THEN t1.dims[j].v ELSE 1]
        pa == reduce_product(a)
        p1 == reduce_product([j \in 1..Len(t1.dims) |-> t1.dims[j].v])
        p2 == reduce_product(t2)
        dv == divisible_either(pa.val, p2.val)
    IN  IF t1 = Dyn THEN ok
        ELSE IF (isTensorType(t1) /\ contains(t1.dims, Dyn)) \/ contains(t2, -1)
        THEN IF ~isTensorType(t1) THEN Fail(ty, "AssertionError")
             ELSE IF pa.err # "none" THEN Fail(ty, pa.err)
             ELSE IF p2.err # "none" THEN Fail(ty, p2.err)
             ELSE IF dv.err # "none" THEN Fail(ty, dv.err)
             ELSE IF dv.val THEN ok
             ELSE Fail(ty, "TypeError: Cannot reshape")
        ELSE IF isTensorType(t1)
        THEN IF p1.err # "none" THEN Fail(ty, p1.err)
             ELSE IF p2.err # "none" THEN Fail(ty, p2.err)
             ELSE IF p1.val = p2.val THEN ok
             ELSE Fail(ty, "TypeError: Cannot reshape")
        ELSE Fail(ty, "TypeError: Cannot reshape")

bn2d_inference_rule(ty, i, n, op_type) ==
    LET a0 == n.args[1]
        m0 == apply_matching(ty[a0], 4)
        ty1 == [ty EXCEPT ![a0] = m0.val]
        arg_type == m0.val
        m1 == apply_matching(ty1[i], 4)
        ty2 == [ty1 EXCEPT ![i] = m1.val]
        n_type == m1.val
    IN  IF m0.err # "none" THEN Fail(ty, m0.err)
        ELSE IF m1.err # "none" THEN Fail(ty1, m1.err)
        ELSE IF /\ dim_consistent(arg_type.dims[2], Num(op_type.num_features))
                /\ dim_consistent(n_type.dims[2], Num(op_type.num_features))
                /\ is_consistent(arg_type, n_type)
        THEN IF is_more_precise(arg_type, n_type)
             THEN Done([ty2 EXCEPT ![i] = arg_type])
             ELSE Done(ty2)
        ELSE Fail(ty2, "TypeError: Cannot apply")

conv2d_inference_rule(ty, i, n, op_type) ==
    LET a0 == n.args[1]
        m0 == apply_matching(ty[a0], 4)
        ty1 == [ty EXCEPT ![a0] = m0.val]
        arg_type == m0.val
        m1 == apply_matching(ty1[i], 4)
        ty2 == [ty1 EXCEPT ![i] = m1.val]
        n_type == m1.val
        w_in == arg_type.dims[4]
        h_in == arg_type.dims[3]
        h_out == calculate_hout(h_in, op_type)
        w_out == calculate_wout(w_in, op_type)
        new_type == TensorType(<<arg_type.dims[1], Num(op_type.out_channels),
                                 h_out.val, w_out.val>>)
    IN  IF m0.err # "none" THEN Fail(ty, m0.err)
        ELSE IF m1.err # "none" THEN Fail(ty1, m1.err)
        ELSE IF /\ dim_consistent(arg_type.dims[2], Num(op_type.in_channels))
                /\ dim_consistent(n_type.dims[2], Num(op_type.in_channels))
                /\ is_consistent(arg_type, n_type)
        THEN IF h_out.err # "none" THEN Fail(ty2, h_out.err)
             ELSE IF w_out.err # "none" THEN Fail(ty2, w_out.err)
             ELSE Done([ty2 EXCEPT ![i] = new_type])
        ELSE Fail(ty2, "TypeError: Cannot apply")

\* faulty variant: the argument's type is written back as well
relu_inference_rule_backward(ty, i, n, op_type) ==
    LET a0 == n.args[1]
        arg_type == ty[a0]
    IN  IF is_consistent(arg_type, ty[i])
        THEN IF is_more_precise(arg_type, ty[i])
             THEN Done([ty EXCEPT ![i] = arg_type])
             ELSE Done([ty EXCEPT ![a0] = ty[i]])
        ELSE Fail(ty, "TypeError: Cannot apply")

relu_inference_rule(ty, i, n, op_type) ==
    LET arg_type == ty[n.args[1]]
    IN  IF is_consistent(arg_type, ty[i])
        THEN IF is_more_precise(arg_type, ty[i])
             THEN Done([ty EXCEPT ![i] = arg_type])
             ELSE Done(ty)
        ELSE Fail(ty, "TypeError: Cannot apply")

maxpool2d_inference_rule(ty, i, n, op_type) ==
    LET a0 == n.args[1]
        m0 == apply_matching(ty[a0], 4)
        ty1 == [ty EXCEPT ![a0] = m0.val]
        arg_type == m0.val
        m1 == apply_matching(ty1[i], 4)
        ty2 == [ty1 EXCEPT ![i] = m1.val]
        n_type == m1.val
        w_in == arg_type.dims[4]
        h_in == arg_type.dims[3]
        h_out == calculate_hout(h_in, op_type)
        w_out == calculate_wout(w_in, op_type)
        new_type == TensorType(<<arg_type.dims[1], arg_type.dims[2],
                                 h_out.val, w_out.val>>)
    IN  IF m0.err # "none" THEN Fail(ty, m0.err)
        ELSE IF m1.err # "none" THEN Fail(ty1, m1.err)
        ELSE IF is_consistent(arg_type, n_type)
        THEN IF h_out.err # "none" THEN Fail(ty2, h_out.err)
             ELSE IF w_out.err # "none" THEN Fail(ty2, w_out.err)
             ELSE Done([ty2 EXCEPT ![i] = new_type])
        ELSE Fail(ty2, "TypeError: Cannot apply")

linear_check(tensor_type, op_type) ==
    LET r == Len(tensor_type.dims)
    IN  IF r >= 2
        THEN IF dim_consistent(Num(op_type.in_features), tensor_type.dims[r])
             THEN Return(TensorType([tensor_type.dims EXCEPT ![r] = Num(op_type.out_features)]))
             ELSE Raise("TypeError: Inconsistent")
        ELSE Raise("TypeError: must have rank 2 or more")

\* new_res_type_from_arg / new_res_type_from_node and the choice between them
merge_results(ty, i, from_arg, from_node) ==
    IF from_arg.err # "none" THEN Fail(ty, from_arg.err)
    ELSE IF from_node.err # "none" THEN Fail(ty, from_node.err)
    ELSE IF is_more_precise(from_arg.val, from_node.val)
         THEN Done([ty EXCEPT ![i] = from_arg.val])
    ELSE Done([ty EXCEPT ![i] = from_node.val])

\* new_type = check(...); n.type = new_type
assign_result(ty, i, r) ==
    IF r.err # "none" THEN Fail(ty, r.err) ELSE Done([ty EXCEPT ![i] = r.val])

linear_inference_rule(ty, i, n, op_type) ==
    LET arg_type == ty[n.args[1]]
        n_type == ty[i]
    IN  IF isTensorType(arg_type) /\ isTensorType(n_type)
        THEN IF is_consistent(arg_type, n_type)
             THEN merge_results(ty, i, linear_check(arg_type, op_type),
                                linear_check(n_type, op_type))
             ELSE Fail(ty, "TypeError: inconsistent")
        ELSE IF isTensorType(arg_type) /\ n_type = Dyn
        THEN assign_result(ty, i, linear_check(arg_type, op_type))
        ELSE IF isTensorType(n_type) /\ arg_type = Dyn
        THEN assign_result(ty, i, linear_check(n_type, op_type))
        ELSE IF arg_type = Dyn /\ n_type = Dyn
        THEN Done(ty)
        ELSE Fail(ty, "TypeError: Wrong types")

\* lines 353-361; an int output_size is <<k>>, a tuple is <<h, w>>
output_size_list(output_size) ==
    IF Len(output_size) = 1 THEN <<output_size[1], output_size[1]>>
    ELSE LET o0 == IF output_size[1] = None THEN output_size[2] ELSE output_size[1]
         IN  <<o0, output_size[2]>>

adaptiveavgpool2d_check(tensor_type, op_type) ==
    LET output_size == output_size_list(op_type.output_size)
        r == Len(tensor_type.dims)
    IN  IF r = 4 \/ r = 3
        THEN Return(TensorType([[tensor_type.dims EXCEPT ![r] = output_size[2]]
                                    EXCEPT ![r - 1] = output_size[1]]))
        ELSE Raise("TypeError: Tensor ranks must be 3 or 4")

adaptiveavgpool2d_inference_rule(ty, i, n, op_type) ==
    LET arg_type == ty[n.args[1]]
        n_type == ty[i]
    IN  IF isTensorType(arg_type) /\ isTensorType(n_type)
        THEN IF is_consistent(arg_type, n_type)
             THEN merge_results(ty, i, adaptiveavgpool2d_check(arg_type, op_type),
                                adaptiveavgpool2d_check(n_type, op_type))
             ELSE Fail(ty, "TypeError: inconsistent")
        ELSE IF arg_type = Dyn /\ isTensorType(n_type)
        THEN assign_result(ty, i, adaptiveavgpool2d_check(n_type, op_type))
        ELSE IF isTensorType(arg_type) /\ n_type = Dyn
        THEN assign_result(ty, i, adaptiveavgpool2d_check(arg_type, op_type))
        ELSE IF n_type = Dyn /\ arg_type = Dyn
        THEN Done(ty)
        ELSE Fail(ty, "TypeError: Wrong types")

\* ------------------------------------------------------------------------
\* GraphTypeChecker
\* ------------------------------------------------------------------------

\* lines 433-434, faulty variant: an unset type slot is left unset
default_type_skipped(ty, i) == ty

default_type(ty, i) == IF ty[i] = None THEN [ty EXCEPT ![i] = Dyn] ELSE ty

\* _INFERENCE_RULES[target](n)
call_function_rule(ty, i, n) ==
    IF n.target \in {"torch.add", "operator.add"} THEN add_inference_rule(ty, i, n)
    ELSE IF n.target = "torch.transpose" THEN transpose_inference_rule(ty, i, n)
    ELSE reshape_inference_rule(ty, i, n)

\* _INFERENCE_RULES[type(op_type)](n, op_type)
call_module_rule(ty, i, n, op_type) ==
    IF op_type.cls = "BatchNorm2d" THEN bn2d_inference_rule(ty, i, n, op_type)
    ELSE IF op_type.cls = "Conv2d" THEN conv2d_inference_rule(ty, i, n, op_type)
    ELSE IF op_type.cls = "ReLU" THEN relu_inference_rule(ty, i, n, op_type)
    ELSE IF op_type.cls = "MaxPool2d" THEN maxpool2d_inference_rule(ty, i, n, op_type)
    ELSE IF op_type.cls = "Linear" THEN linear_inference_rule(ty, i, n, op_type)
    ELSE adaptiveavgpool2d_inference_rule(ty, i, n, op_type)

type_check_node(ty, i, n, modules, rules) ==
    LET ty0 == default_type(ty, i)
    IN  IF n.op = "placeholder" THEN Done(ty0)
        ELSE IF n.op = "call_function"
        THEN IF n.target \in rules THEN call_function_rule(ty0, i, n)
             ELSE Fail(ty0, "RuntimeError: No inference rule registered for target")
        ELSE IF n.op = "call_module"
        THEN IF modules[n.target].cls \in rules
             THEN call_module_rule(ty0, i, n, modules[n.target])
             ELSE Fail(ty0, "RuntimeError: No inference rule registered for class")
        ELSE IF n.op = "output" THEN Done([ty0 EXCEPT ![i] = ty0[n.args[1]]])
        ELSE Fail(ty0, "NotImplementedError")

\* the for loop of type_check, faulty variant: an exception of a node is swallowed
loop_after_swallowed(err) == "running"

\* the for loop of type_check: an exception of type_check_node ends the call
loop_after(err) == IF err = "none" THEN "running" ELSE "error"

\* the targets registered by register_inference_rule when the module is loaded
RegisteredRules ==
    {"torch.add", "operator.add", "torch.transpose", "torch.reshape", "BatchNorm2d",
     "Conv2d", "ReLU", "MaxPool2d", "Linear", "AdaptiveAvgPool2d"}

VARIABLES
    traced,           \* self.traced: graph, the sequence of nodes; modules, by name
    type,             \* type[i] is the type slot of the node at position i
    INFERENCE_RULES,  \* the keys of _INFERENCE_RULES
    state,            \* "idle", "running", "ok" (returned True), "error" (raised)
    pc,               \* position of the node the loop of type_check is at
    error,            \* the exception raised in the current call, or "none"
    pass,             \* number of calls of type_check so far
    visited,          \* positions passed to type_check_node in the current call
    prev,             \* the type slots before the last type_check_node
    start             \* the type slots when the current call began

vars == <<traced, type, INFERENCE_RULES, state, pc, error, pass, visited, prev, start>>

N == Len(traced.graph)

\* number of type_check calls on one graph
MaxPasses == 2

TypeCheckCall ==
    /\ state \in {"idle", "ok"}
    /\ pass < MaxPasses
    /\ state' = "running"
    /\ pc' = 1
    /\ pass' = pass + 1
    /\ error' = "none"
    /\ visited' = <<>>
    /\ prev' = type
    /\ start' = type
    /\ UNCHANGED <<traced, type, INFERENCE_RULES>>

TypeCheckNode ==
    /\ state = "running"
    /\ pc <= N
    /\ LET r == type_check_node(type, pc, traced.graph[pc], traced.modules, INFERENCE_RULES)
       IN  /\ type' = r.ty
           /\ state' = loop_after(r.err)
           /\ pc' = IF loop_after(r.err) = "running" THEN pc + 1 ELSE pc
           /\ error' = IF r.err = "none" THEN error ELSE r.err
    /\ visited' = Append(visited, pc)
    /\ prev' = type
    /\ UNCHANGED <<traced, INFERENCE_RULES, pass, start>>

TypeCheckReturn ==
    /\ state = "running"
    /\ pc > N
    /\ state' = "ok"
    /\ UNCHANGED <<traced, type, INFERENCE_RULES, pc, error, pass, visited, prev, start>>

Next == TypeCheckCall \/ TypeCheckNode \/ TypeCheckReturn

\* ------------------------------------------------------------------------
\* Graphs handed to the checker: nodes in topological order, every argument
\* at an earlier position, annotated types made of valid dimensions.
\* ------------------------------------------------------------------------
placeholder(name) == [op |-> "placeholder", target |-> name, args |-> <<>>, lits |-> <<>>]

call_function(target, args, lits) ==
    [op |-> "call_function", target |-> target, args |-> args, lits |-> lits]

call_module(name, args) == [op |-> "call_module", target |-> name, args |-> args, lits |-> <<>>]

output(arg) == [op |-> "output", target |-> "output", args |-> <<arg>>, lits |-> <<>>]

Traced(graph, modules, types) == [graph |-> graph, modules |-> modules, types |-> types]

\* a module bound to the name "m"
Bound(op_type) == [name \in {"m"} |-> op_type]

Conv2d(inc, outc, k, s, p, d) ==
    [cls |-> "Conv2d", in_channels |-> inc, out_channels |-> outc,
     kernel_size |-> k, stride |-> s, padding |-> p, dilation |-> d]

MaxPool2d(k, s, p, d) ==
    [cls |-> "MaxPool2d", kernel_size |-> k, stride |-> s, padding |-> p, dilation |-> d]

BatchNorm2d(f) == [cls |-> "BatchNorm2d", num_features |-> f]

ReLU == [cls |-> "ReLU"]

Linear(inf, outf) == [cls |-> "Linear", in_features |-> inf, out_features |-> outf]

AdaptiveAvgPool2d(os) == [cls |-> "AdaptiveAvgPool2d", output_size |-> os]

Dropout == [cls |-> "Dropout"]

\* bounds of the generated graphs
MaxRank == 3

MaxDim == 2

MaxHW == 3

MaxKernel == 2

MaxTarget == 4

Dims(lo, hi) == {Dyn} \cup {Num(i) : i \in lo..hi}

Tensors(r, D) == {TensorType(s) : s \in [1..r -> D]}

TensorsUpTo(r, D) == UNION {Tensors(k, D) : k \in 0..r}

\* an int hyperparameter, or a pair of them
Hyper(lo, hi) == {<<a>> : a \in lo..hi} \cup {<<a, b>> : a \in lo..hi, b \in lo..hi}

\* x -> m(x) -> output
Unary(tx, tn, op_type) ==
    Traced(<<placeholder("x"), call_module("m", <<1>>), output(2)>>, Bound(op_type),
           <<tx, tn, None>>)

\* x, y -> f(x, y) -> output
Binary(tx, ty, f, args) ==
    Traced(<<placeholder("x"), placeholder("y"), call_function(f, args, <<>>), output(3)>>,
           <<>>, <<tx, ty, None, None>>)

\* x -> f(x, lits) -> output
UnaryFunction(tx, tn, f, lits) ==
    Traced(<<placeholder("x"), call_function(f, <<1>>, lits), output(2)>>, <<>>,
           <<tx, tn, None>>)

\* x -> m(x) -> m2(m(x)) -> output
Chain(tx, op1, op2) ==
    Traced(<<placeholder("x"), call_module("m", <<1>>), call_module("m2", <<2>>), output(3)>>,
           [name \in {"m", "m2"} |-> IF name = "m" THEN op1 ELSE op2],
           <<tx, None, None, None>>)

AddTypes == {None, Dyn, int} \cup TensorsUpTo(MaxRank, Dims(1, MaxDim))

AddGraphs ==
    {Binary(tx, ty, "torch.add", <<1, 2>>) : tx \in AddTypes, ty \in AddTypes}
    \cup {Binary(TensorType(<<Num(2), Num(3)>>), TensorType(<<Num(2), Num(4)>>),
                 "torch.add", <<1, 2>>),
          Binary(TensorType(<<Num(2), Num(3)>>), TensorType(<<Dyn, Num(3)>>),
                 "operator.add", <<1, 2>>)}

ImageTypes ==
    {TensorType(<<b, c, h, w>>) : b \in {Dyn, Num(1)}, c \in Dims(1, 2),
                                  h \in Dims(1, MaxHW), w \in Dims(1, MaxHW)}

WindowArgTypes == {None, Dyn, int, TensorType(<<Num(1), Num(2), Num(3)>>)} \cup ImageTypes

DeclaredImageTypes == {None, Dyn, TensorType(<<Dyn, Dyn, Dyn, Dyn>>)}

ConvGraphs ==
    {Unary(tx, tn, Conv2d(inc, outc, <<k>>, <<s>>, <<p>>, <<1>>)) :
        tx \in WindowArgTypes, tn \in DeclaredImageTypes, inc \in {1}, outc \in 1..2,
        k \in 1..MaxKernel, s \in 1..2, p \in 0..1}
    \cup
    {Unary(tx, None, Conv2d(1, 2, k, s, p, d)) :
        tx \in {Dyn, TensorType(<<Dyn, Num(1), Num(3), Num(2)>>),
                TensorType(<<Num(1), Dyn, Num(1), Dyn>>)},
        k \in Hyper(1, MaxKernel), s \in Hyper(1, 2), p \in Hyper(0, 1), d \in Hyper(1, 2)}
    \cup
    {Unary(TensorType(<<Dyn, Num(3), Num(32), Num(32)>>), None,
           Conv2d(3, 8, <<3>>, <<1>>, <<1>>, <<1>>))}

MaxPoolGraphs ==
    {Unary(tx, tn, MaxPool2d(<<k>>, <<s>>, <<p>>, <<1>>)) :
        tx \in WindowArgTypes, tn \in DeclaredImageTypes,
        k \in 1..MaxKernel, s \in 1..2, p \in 0..1}

ReshapeTargets == UNION {[1..r -> (-1)..MaxTarget] : r \in 1..2}

ReshapeGraphs ==
    {UnaryFunction(tx, None, "torch.reshape", s) :
        tx \in {None, Dyn} \cup UNION {Tensors(r, Dims(0, MaxDim + 1)) : r \in 1..MaxRank},
        s \in ReshapeTargets}
    \cup
    {UnaryFunction(TensorType(<<Num(2), Num(3), Num(4)>>), None, "torch.reshape", s) :
        s \in {<<-1, 4>>, <<5, 5>>}}

OutputSizes ==
    {<<Num(k)>> : k \in 1..2} \cup
    {<<a, b>> : a \in {None, Num(1), Num(2)}, b \in {None, Num(1), Num(2)}}

PoolGraphs ==
    {Unary(tx, tn, AdaptiveAvgPool2d(os)) :
        tx \in {None, Dyn, int} \cup
               UNION {Tensors(r, Dims(1, 1)) : r \in (MaxRank - 1)..(MaxRank + 2)},
        tn \in {None, Dyn, TensorType(<<Dyn, Dyn, Dyn>>), TensorType(<<Dyn, Dyn, Num(1), Num(1)>>)},
        os \in OutputSizes}

SmallTypes == {None, Dyn, int} \cup TensorsUpTo(MaxRank + 1, Dims(1, MaxDim - 1))

DeclaredTypes ==
    {None, Dyn, TensorType(<<Dyn, Num(1)>>), TensorType(<<Dyn, Dyn, Dyn, Dyn>>),
     TensorType(<<Num(1), Num(1), Dyn, Dyn>>)}

SmallImageTypes ==
    {None, Dyn, TensorType(<<Dyn, Num(1), Num(1), Num(MaxHW)>>),
     TensorType(<<Num(1), Dyn, Num(MaxHW), Dyn>>), TensorType(<<Dyn, Num(2), Num(2), Num(2)>>),
     TensorType(<<Num(1), Num(2), Num(3)>>)}

\* graphs of every kind of node, over few types
MixedGraphs ==
    {UnaryFunction(tx, None, "torch.transpose", <<d1, d2>>) :
        tx \in SmallTypes, d1 \in (-1)..MaxRank, d2 \in 0..1}
    \cup {Unary(tx, tn, BatchNorm2d(f)) : tx \in SmallTypes, tn \in DeclaredTypes, f \in 1..2}
    \cup {Unary(tx, tn, ReLU) : tx \in SmallTypes, tn \in DeclaredTypes}
    \cup {Unary(tx, tn, Linear(inf, outf)) :
             tx \in SmallTypes, tn \in DeclaredTypes, inf \in 1..2, outf \in 1..2}
    \cup {Unary(tx, None, Dropout) : tx \in SmallTypes}
    \cup {UnaryFunction(tx, None, "torch.mul", <<>>) : tx \in SmallTypes}
    \cup {Binary(tx, tx, "torch.add", <<1, 1>>) : tx \in SmallTypes}
    \cup {Binary(tx, ty, "torch.add", <<1, 2>>) :
             tx \in {None, Dyn, int} \cup TensorsUpTo(2, Dims(1, MaxDim)),
             ty \in {None, Dyn, int} \cup TensorsUpTo(2, Dims(1, MaxDim))}
    \cup {Traced(<<placeholder("x"), [op |-> "call_method", target |-> "size",
                                      args |-> <<1>>, lits |-> <<>>], output(2)>>,
                 <<>>, <<tx, None, None>>) : tx \in SmallTypes}
    \cup {Unary(tx, tn, Conv2d(1, outc, k, <<s>>, <<0>>, <<1>>)) :
             tx \in SmallImageTypes, tn \in DeclaredImageTypes, outc \in 1..2,
             k \in {<<1>>, <<MaxKernel>>, <<1, MaxKernel>>}, s \in 1..2}
    \cup {Unary(tx, tn, MaxPool2d(k, <<s>>, <<0>>, <<1>>)) :
             tx \in SmallImageTypes, tn \in DeclaredImageTypes,
             k \in {<<1>>, <<MaxKernel>>, <<1, MaxKernel>>}, s \in 1..2}
    \cup {UnaryFunction(tx, None, "torch.reshape", s) :
             tx \in {None, Dyn} \cup UNION {Tensors(r, Dims(0, MaxDim)) : r \in 1..2},
             s \in UNION {[1..r -> (-1)..MaxDim] : r \in 1..2}}
    \cup {Unary(tx, tn, AdaptiveAvgPool2d(os)) :
             tx \in {None, Dyn, TensorType(<<Dyn, Num(2)>>), TensorType(<<Dyn, Dyn, Num(2)>>),
                     TensorType(<<Num(1), Dyn, Num(2), Num(1)>>)},
             tn \in DeclaredTypes, os \in OutputSizes}
    \cup {Chain(tx, op1, op2) :
             tx \in {Dyn, TensorType(<<Dyn, Num(1), Num(3), Num(3)>>),
                     TensorType(<<Num(1), Num(1), Num(1), Num(1)>>)},
             op1 \in {Conv2d(1, 2, <<3>>, <<1>>, <<1>>, <<1>>), Conv2d(1, 1, <<2>>, <<1>>, <<0>>, <<1>>),
                      MaxPool2d(<<2>>, <<2>>, <<0>>, <<1>>), ReLU, BatchNorm2d(1),
                      AdaptiveAvgPool2d(<<Num(1)>>), Linear(3, 2)},
             op2 \in {Conv2d(2, 1, <<1>>, <<1>>, <<0>>, <<1>>), MaxPool2d(<<2>>, <<1>>, <<0>>, <<1>>),
                      ReLU, BatchNorm2d(2), AdaptiveAvgPool2d(<<Num(2), None>>),
                      Linear(1, 1)}}

InitWith(graphs) ==
    /\ \E g \in graphs :
          /\ traced = [graph |-> g.graph, modules |-> g.modules]
          /\ type = g.types
          /\ prev = g.types
          /\ start = g.types
    /\ INFERENCE_RULES = RegisteredRules
    /\ state = "idle"
    /\ pc = 1
    /\ error = "none"
    /\ pass = 0
    /\ visited = <<>>

Init == InitWith(MixedGraphs)

Spec == Init /\ [][Next]_vars

\* graphs of one operator each
InitAdd == InitWith(AddGraphs)

SpecAdd == InitAdd /\ [][Next]_vars

InitWindow == InitWith(ConvGraphs \cup MaxPoolGraphs)

SpecWindow == InitWindow /\ [][Next]_vars

InitReshape == InitWith(ReshapeGraphs)

SpecReshape == InitReshape /\ [][Next]_vars

InitPool == InitWith(PoolGraphs)

SpecPool == InitPool /\ [][Next]_vars

\* ------------------------------------------------------------------------
\* Properties
\* ------------------------------------------------------------------------

\* position and node of the last call of type_check_node
Last == visited[Len(visited)]

LastNode == traced.graph[Last]

LastIsFunction(targets) ==
    /\ visited # <<>>
    /\ LastNode.op = "call_function"
    /\ LastNode.target \in targets

LastIsModule(classes) ==
    /\ visited # <<>>
    /\ LastNode.op = "call_module"
    /\ traced.modules[LastNode.target].cls \in classes

LastModule == traced.modules[LastNode.target]

\* the type of the k-th argument node before the last call
ArgBefore(k) == prev[LastNode.args[k]]

\* C1: when a first type_check() succeeded, a second type_check() on the same
\* graph succeeds too and leaves every node's type as the first call left it.
C1_Idempotent ==
    pass >= 2 => /\ state # "error"
                 /\ (state = "ok" => type = start)

NonNegativeDim(d) == d = Dyn \/ (isInt(d) /\ d.v >= 0)

\* C2: with valid annotations and hyperparameters, every dimension of every
\* node's type is Dyn or a non-negative integer in every state of type_check().
C2_DimsNonNegative ==
    \A i \in 1..N :
        isTensorType(type[i]) =>
            \A j \in 1..Len(type[i].dims) : NonNegativeDim(type[i].dims[j])

C4_NoUnsetType ==
    state = "ok" => \A i \in 1..N : type[i].k \in {"Dyn", "TensorType", "int"}

\* an unannotated placeholder and a linear node with argument and declared
\* type Dyn, after a successful call
C4_Witness ==
    /\ state = "ok"
    /\ pass = 1
    /\ start[1] = None
    /\ \E i \in 1..N :
          /\ traced.graph[i].op = "call_module"
          /\ traced.modules[traced.graph[i].target].cls = "Linear"
          /\ type[i] = Dyn
          /\ type[traced.graph[i].args[1]] = Dyn

ScalarCase(t1, t2) ==
    \/ t1 = int /\ isTensorType(t2)
    \/ t2 = int /\ isTensorType(t1)

\* C5: when the add rule succeeds outside the scalar case, the node's type is
\* the more precise of the two broadcast operand types.
C5_AddKeepsMorePrecise ==
    (/\ LastIsFunction({"torch.add", "operator.add"})
     /\ error = "none"
     /\ ~ScalarCase(ArgBefore(1), ArgBefore(2))) =>
        LET b == broadcast_types(ArgBefore(1), ArgBefore(2))
        IN  (b.err = "none" /\ is_consistent(b.val[1], b.val[2])) =>
                /\ (is_more_precise(b.val[1], b.val[2]) => type[Last] = b.val[1])
                /\ (is_more_precise(b.val[2], b.val[1]) => type[Last] = b.val[2])

\* the component of a hyperparameter for one axis (1 height, 2 width)
Axis(h, a) == IF Len(h) = 1 THEN h[1] ELSE h[a]

\* floor(x / s) for s > 0: the integer q with q * s <= x < (q + 1) * s
FloorQuotient(x, s) ==
    CHOOSE q \in (-(Abs(x) + 1))..(Abs(x) + 1) : q * s <= x /\ x < (q + 1) * s

\* W(d) of one axis of a window operator
WindowSize(d, m, a) ==
    IF d = Dyn THEN Dyn
    ELSE Num(FloorQuotient(d.v + 2 * Axis(m.padding, a)
                               - Axis(m.dilation, a) * (Axis(m.kernel_size, a) - 1) - 1,
                           Axis(m.stride, a)) + 1)

\* the type the convolution rule assigns for argument type t
ConvOutput(t, m) ==
    IF t = Dyn THEN TensorType(<<Dyn, Num(m.out_channels), Dyn, Dyn>>)
    ELSE TensorType(<<t.dims[1], Num(m.out_channels),
                      WindowSize(t.dims[3], m, 1), WindowSize(t.dims[4], m, 2)>>)

ConvArgument(t, m) ==
    \/ t = Dyn
    \/ /\ isTensorType(t)
       /\ Len(t.dims) = 4
       /\ (t.dims[2] = Dyn \/ t.dims[2] = Num(m.in_channels))

ExampleConv == Conv2d(3, 8, <<3>>, <<1>>, <<1>>, <<1>>)

ExampleOutput == TensorType(<<Dyn, Num(8), Num(32), Num(32)>>)

\* C6: a Conv2d node without a declared type whose argument is Dyn or a rank-4
\* type with a consistent channel gets TensorType(b, out_channels, W_h(h), W_w(w)),
\* each axis with its own hyperparameter component; the example graph checks
\* with TensorType(Dyn,8,32,32) on the conv node and on the output node.
C6_ConvOutputType ==
    /\ (/\ LastIsModule({"Conv2d"})
        /\ prev[Last] = None
        /\ ConvArgument(ArgBefore(1), LastModule)) =>
            /\ error = "none"
            /\ type[Last] = ConvOutput(ArgBefore(1), LastModule)
    /\ (/\ pass = 1
        /\ N = 3
        /\ traced.graph[2].op = "call_module"
        /\ traced.modules["m"] = ExampleConv
        /\ start[1] = TensorType(<<Dyn, Num(3), Num(32), Num(32)>>)
        /\ start[2] = None) =>
            /\ state # "error"
            /\ (state = "ok" => type[2] = ExampleOutput /\ type[3] = ExampleOutput)

\* a convolution with different kernel, stride, padding and dilation on the two
\* axes has typed an argument of known height and width
C6_Witness ==
    /\ LastIsModule({"Conv2d"})
    /\ prev[Last] = None
    /\ error = "none"
    /\ isTensorType(ArgBefore(1))
    /\ isInt(ArgBefore(1).dims[3])
    /\ isInt(ArgBefore(1).dims[4])
    /\ \A h \in {LastModule.kernel_size, LastModule.stride,
                 LastModule.padding, LastModule.dilation} :
          Len(h) = 2 /\ h[1] # h[2]
    /\ type[Last].dims[3] # type[Last].dims[4]

\* product of the known entries of a reshape target / of the known dims
RECURSIVE KnownProduct(_)
KnownProduct(s) ==
    IF s = <<>> THEN 1
    ELSE (IF s[1] = -1 THEN 1 ELSE s[1]) * KnownProduct(Tail(s))

KnownDims(t) == [j \in 1..Len(t.dims) |-> IF t.dims[j] = Dyn THEN -1 ELSE t.dims[j].v]

\* a divides b, for a, b >= 0
Divides(a, b) == \E q \in 0..b : q * a = b

ReshapeAccepted(t, s) ==
    \/ t = Dyn
    \/ /\ isTensorType(t)
       /\ (contains(t.dims, Dyn) \/ contains(s, -1))
       /\ \/ Divides(KnownProduct(KnownDims(t)), KnownProduct(s))
          \/ Divides(KnownProduct(s), KnownProduct(KnownDims(t)))
    \/ /\ isTensorType(t)
       /\ ~contains(t.dims, Dyn)
       /\ ~contains(s, -1)
       /\ KnownProduct(KnownDims(t)) = KnownProduct(s)

\* C7: the reshape rule succeeds exactly in the three cases of ReshapeAccepted,
\* then the node's type is the target with -1 replaced by Dyn; otherwise it
\* fails with the reshape type error and the node's type is not changed.
C7_ReshapeAcceptance ==
    LastIsFunction({"torch.reshape"}) =>
        IF ReshapeAccepted(ArgBefore(1), LastNode.lits)
        THEN /\ error = "none"
             /\ type[Last] = TensorType([j \in 1..Len(LastNode.lits) |->
                                 IF LastNode.lits[j] = -1 THEN Dyn ELSE Num(LastNode.lits[j])])
        ELSE /\ error = "TypeError: Cannot reshape"
             /\ type[Last] = IF prev[Last] = None THEN Dyn ELSE prev[Last]

\* the shorter of two dimension sequences, left-padded with the other's
\* leading dimension
Padded(s, o) == IF Len(o) > Len(s) THEN <<o[1]>> \o s ELSE s

\* every 1 of p replaced by the value of q at its position
OnesReplaced(p, q) == [j \in 1..Len(p) |-> IF p[j] = Num(1) THEN q[j] ELSE p[j]]

Broadcast1(t1, t2) == OnesReplaced(Padded(t1.dims, t2.dims), Padded(t2.dims, t1.dims))

Broadcast2(t1, t2) == OnesReplaced(Padded(t2.dims, t1.dims), Padded(t1.dims, t2.dims))

ArgsUnchanged == \A k \in 1..Len(LastNode.args) : type[LastNode.args[k]] = ArgBefore(k)

BroadcastPost(t1, t2) ==
    IF t1 = Dyn \/ t2 = Dyn
    THEN error = "none" /\ ArgsUnchanged
    ELSE IF Len(t1.dims) = 0 \/ Len(t2.dims) = 0 \/ Abs(Len(t1.dims) - Len(t2.dims)) > 1
    THEN error = "TypeError: Cannot broadcast the tensors" /\ ArgsUnchanged
    ELSE IF Broadcast1(t1, t2) # t1.dims /\ Broadcast2(t1, t2) # t2.dims
    THEN error = "TypeError: In-place operations cannot not change shape" /\ ArgsUnchanged
    ELSE /\ error \in {"none", "TypeError: Cannot add arguments"}
         /\ type[LastNode.args[1]] = TensorType(Broadcast1(t1, t2))
         /\ type[LastNode.args[2]] = TensorType(Broadcast2(t1, t2))
         /\ Len(type[LastNode.args[1]].dims) = Len(type[LastNode.args[2]].dims)
         /\ (type[LastNode.args[1]] = t1 \/ type[LastNode.args[2]] = t2)

\* C8: broadcast_types, as the add rule applies it to its two operands: rank 0
\* or a rank gap above 1 fails; otherwise the shorter is padded with the
\* longer's leading dimension and 1s are replaced; it fails with the in-place
\* error exactly when both sides changed, else both operands get types of
\* equal rank, one of them as it was; a Dyn operand leaves both as they were.
\* TensorType(2,3) + TensorType(2,4) is rejected.
C8_BroadcastPostCondition ==
    /\ (/\ LastIsFunction({"torch.add", "operator.add"})
        /\ LastNode.args[1] # LastNode.args[2]
        /\ ArgBefore(1) = Dyn \/ ArgBefore(2) = Dyn
              \/ (isTensorType(ArgBefore(1)) /\ isTensorType(ArgBefore(2)))) =>
            BroadcastPost(ArgBefore(1), ArgBefore(2))
    /\ (/\ LastIsFunction({"torch.add", "operator.add"})
        /\ ArgBefore(1) = TensorType(<<Num(2), Num(3)>>)
        /\ ArgBefore(2) = TensorType(<<Num(2), Num(4)>>)) =>
            error # "none"

\* the add rule broadcast operands of different rank and rewrote the shorter
C8_Witness ==
    /\ LastIsFunction({"torch.add", "operator.add"})
    /\ error = "none"
    /\ isTensorType(ArgBefore(1))
    /\ isTensorType(ArgBefore(2))
    /\ Len(ArgBefore(1).dims) # Len(ArgBefore(2).dims)
    /\ ~ArgsUnchanged

\* (height, width) of an output_size: an int is both, a missing half takes
\* the other half
OutputHW(os) ==
    IF Len(os) = 1 THEN <<os[1], os[1]>>
    ELSE IF os[1] = None THEN <<os[2], os[2]>>
    ELSE IF os[2] = None THEN <<os[1], os[1]>>
    ELSE os

\* C9: for an argument TensorType of rank 3 or 4 (and no declared type) the
\* adaptive-average-pool rule keeps the leading dims and replaces the last two
\* by (height, width) of output_size, a missing half taking the other half's
\* value; any other rank fails with the rank error.
C9_AdaptivePoolOutput ==
    (/\ LastIsModule({"AdaptiveAvgPool2d"})
     /\ prev[Last] \in {None, Dyn}
     /\ isTensorType(ArgBefore(1))
     /\ LastModule.output_size # <<None, None>>) =>
        LET t == ArgBefore(1)
            r == Len(t.dims)
            hw == OutputHW(LastModule.output_size)
        IN  IF r \in {3, 4}
            THEN /\ error = "none"
                 /\ type[Last] = TensorType([j \in 1..r |->
                                     IF j = r - 1 THEN hw[1]
                                     ELSE IF j = r THEN hw[2] ELSE t.dims[j]])
            ELSE error = "TypeError: Tensor ranks must be 3 or 4"

\* the argument positions a rule may write
WritableArgs(n) ==
    IF n.op = "call_function" /\ n.target \in {"torch.add", "operator.add"}
    THEN {n.args[1], n.args[2]}
    ELSE IF n.op = "call_module"
            /\ traced.modules[n.target].cls \in {"BatchNorm2d", "Conv2d", "MaxPool2d"}
    THEN {n.args[1]}
    ELSE {}

\* C10: type_check_node(n) writes no type slot but n's own and, for add,
\* batch-norm, convolution and max-pool, those of n's argument nodes; the
\* nodes, their order and the rule registry never change.
C10_WriteFootprint ==
    [][/\ traced' = traced
       /\ INFERENCE_RULES' = INFERENCE_RULES
       /\ (state = "running" /\ pc <= N) =>
             \A j \in 1..N :
                 j \notin ({pc} \cup WritableArgs(traced.graph[pc])) => type'[j] = type[j]]_vars

\* the add rule rewrote the type of one of its argument nodes
C10_Witness ==
    /\ LastIsFunction({"torch.add", "operator.add"})
    /\ \E k \in 1..2 : type[LastNode.args[k]] # ArgBefore(k)
    /\ type[Last] # prev[Last]

====
